---- MODULE Spec2Model ----
(***************************************************************************)
(* Model of the remote project creation endpoint of WebODM                 *)
(* (app/api/custom_views.py, app/api/serializers.py) and of the ingestion  *)
(* worker it enqueues (app/api/remote_tasks.py).                           *)
(*                                                                         *)
(* Four specifications share the module:                                   *)
(*   Spec        POST requests of two owners; the datastore and queue      *)
(*               operations of the requests in flight interleave;          *)
(*   SpecPayload the same handler on the full set of request bodies;       *)
(*   SpecConc    the same handler on requests of one owner that derive     *)
(*               one name;                                                 *)
(*   SpecWorker  one execution of task_download_and_process, step by step. *)
(*                                                                         *)
(* Representation of strings.  TLA+ has no string concatenation, so a      *)
(* project name is a record [base, olds]: the string base followed by one  *)
(* "_old_<timestamp>" suffix per element of olds.  An object reference     *)
(* "bucket/dir/file" is the sequence of its "/"-separated segments.        *)
(* A JSON object is a record whose DOMAIN is the set of keys present.      *)
(***************************************************************************)
EXTENDS Naturals, Integers, Sequences, FiniteSets, TLC

VARIABLES
    \* ---- datastore and request handler
    projects,     \* Project table: set of rows [id, name, owner]
    nextId,       \* next auto-increment primary key of the Project table
    now,          \* wall clock, in ticks of 1/TicksPerSecond seconds
    jobs,         \* ingestion jobs enqueued: set of [project_id, host, files, options]
    last,         \* the last POST answered: pre-state, derived values, response
    \* ---- requests in flight
    req,          \* per request slot: position in post() and the request's locals
    started,      \* number of requests started so far
    \* ---- ingestion worker (SpecWorker)
    wpc,          \* position in task_download_and_process
    files,        \* the job's files argument
    idx,          \* loop index (download loop, then move loop)
    tempExists,   \* whether temp_dir exists
    tempDir,      \* basenames of the files present in temp_dir
    localPaths,   \* local_image_paths, as basenames inside temp_dir
    verified,     \* verified_paths
    task,         \* the Task row created by the job
    destDir,      \* basenames of the regular files in task.task_path()
    movedCount,   \* moved_count
    jobState,     \* state of the job as set by update_state / the queue
    jobMeta,      \* meta of the FAILURE state: [exc_type, exc_message]
    progress,     \* 'progress' of the PROGRESS state, in percent
    raised,       \* the exception that left the task function (or NoExc)
    result,       \* the value the task function returned (or NoResult)
    triggered,    \* whether worker_tasks.process_task.delay was issued
    hist          \* history of the run: attempts, outcomes, where it failed

hvars == <<projects, nextId, now, jobs, last>>
cvars == <<req, started>>
wvars == <<wpc, files, idx, tempExists, tempDir, localPaths, verified, task, destDir,
           movedCount, jobState, jobMeta, progress, raised, result, triggered, hist>>
vars == <<hvars, cvars, wvars>>

(***************************************************************************)
(* Bounds of the model.                                                    *)
(***************************************************************************)
MaxId == 3            \* primary keys handed out by the Project table
MaxTime == 2          \* last clock tick
TicksPerSecond == 2   \* clock ticks per second
MaxFiles == 3         \* longest files argument of an ingestion job
MaxStarted == 3       \* requests started in Spec
MaxConcStarted == 4   \* requests started in SpecConc
MaxPayloadStarted == 2  \* requests started in SpecPayload
MaxLost == 1          \* files that disappear from temp_dir during a job

(***************************************************************************)
(* Strings: names and object references.                                   *)
(***************************************************************************)
Name(b) == [base |-> b, olds |-> <<>>]

\* f"{existing_project.name}_old_{timestamp}"
OldName(n, ts) == [base |-> n.base, olds |-> Append(n.olds, ts)]

\* now_utc.astimezone(Asia/Ho_Chi_Minh).strftime('%Y-%m-%d_%H-%M-%S'):
\* the instant at a fixed offset, cut to whole seconds.
Timestamp(t) == t \div TicksPerSecond

UnnamedProject == Name("Unnamed_Project")

RefA1 == <<"bkt", "x", "a.jpg">>
RefA2 == <<"bkt", "y", "a.jpg">>
RefB == <<"bkt", "b.jpg">>
RefBad == <<"nobucket">>

(***************************************************************************)
(* Request bodies.                                                         *)
(***************************************************************************)
FileMinioA1 == [file_name |-> "a.jpg", minio_path |-> RefA1]
FileMinioA2 == [minio_path |-> RefA2]
FileMinioB == [minio_path |-> RefB, checksum |-> "c"]
FileNoMinio == [file_name |-> "a.jpg"]
FileObjA1 == [filename |-> "a.jpg", object_path |-> RefA1]
FileObjB == [object_path |-> RefB]
FileObjFolder == [object_path |-> RefA2, folder |-> Name("B")]
FileFolderOnly == [filename |-> "a.jpg", folder |-> Name("B")]
FileBlankPath == [object_path |-> <<>>]

DataItem(t, fs) == [date |-> "2024-01-01", task |-> Name(t), files |-> fs]

\* Shape A bodies: {data: [{date, task, files: [{file_name, minio_path}]}]}
BodiesA ==
    { [data |-> <<DataItem("A", <<FileMinioA1, FileMinioB>>)>>],
      [data |-> <<DataItem("A", <<FileMinioB, FileMinioA1>>)>>, prefix |-> "p"],
      [data |-> <<DataItem("A", <<FileMinioA1>>), DataItem("B", <<FileMinioA2, FileMinioA1>>)>>],
      [data |-> <<DataItem("B", <<>>), DataItem("A", <<FileMinioB>>)>>],
      [data |-> <<DataItem("A", <<>>)>>],
      [data |-> <<DataItem("A", <<>>), DataItem("B", <<>>)>>],
      [data |-> <<>>],
      [data |-> <<DataItem("A", <<FileNoMinio>>)>>],
      [data |-> <<DataItem("A", <<FileMinioA1>>), DataItem("B", <<FileMinioB, FileNoMinio>>)>>],
      [data |-> <<DataItem("", <<FileMinioA1>>)>>],
      [data |-> <<[date |-> "2024-01-01", files |-> <<FileMinioA1>>]>>],
      [data |-> <<[date |-> "2024-01-01", task |-> Name("A")]>>],
      [data |-> <<DataItem("A", <<FileMinioB>>)>>, TaskName |-> Name("B"),
       payload |-> <<FileObjA1>>] }

\* Shape B bodies: {TaskId, TaskName, payload: [{filename, object_path, folder?}]}
BodiesB ==
    { [TaskId |-> "7", TaskName |-> Name("A"), payload |-> <<FileObjA1, FileObjB>>],
      [TaskName |-> Name("A"), payload |-> <<FileObjB, FileObjA1, FileObjB>>],
      [TaskName |-> Name("A"), payload |-> <<FileObjFolder, FileObjB>>],
      [TaskName |-> Name("B"), payload |-> <<FileObjB, FileObjFolder>>],
      [payload |-> <<FileObjA1>>],
      [payload |-> <<FileObjFolder>>],
      [TaskName |-> Name("A"), payload |-> <<>>],
      [payload |-> <<>>],
      [TaskName |-> Name("A"), payload |-> <<FileFolderOnly>>],
      [TaskName |-> Name("A"), payload |-> <<FileObjA1, FileMinioB>>],
      [payload |-> <<FileMinioA1>>],
      [TaskName |-> Name("A"), payload |-> <<FileBlankPath>>],
      [TaskName |-> Name(""), payload |-> <<FileObjA1>>],
      [TaskName |-> OldName(Name("A"), 0), payload |-> <<FileObjA1>>],
      [TaskName |-> OldName(Name("A"), 0), payload |-> <<>>] }

\* Bodies with neither key
BodiesNone == { [TaskId |-> "7", TaskName |-> Name("A")], [prefix |-> "p"] }

Bodies == BodiesA \cup BodiesB \cup BodiesNone

\* request.data: a JSON object, or a JSON array of objects
AsObject(b) == [list |-> FALSE, val |-> <<b>>]
AsList(s) == [list |-> TRUE, val |-> s]
RawBodies ==
    {AsObject(b) : b \in Bodies}
      \cup {AsList(<<>>)}
      \cup {AsList(<<b>>) : b \in {[TaskName |-> Name("B"), payload |-> <<FileObjB>>],
                                   [data |-> <<DataItem("B", <<>>)>>],
                                   [prefix |-> "p"]}}
      \cup {AsList(<<[payload |-> <<FileObjFolder>>], [prefix |-> "p"]>>)}

\* the bodies of Spec: one of each way through the handler
StoreBodies ==
    { AsObject([TaskName |-> Name("A"), payload |-> <<FileObjA1, FileObjB>>]),
      AsObject([TaskName |-> Name("A"), payload |-> <<>>]),
      AsObject([data |-> <<DataItem("A", <<>>)>>]),
      AsObject([data |-> <<>>]),
      AsObject([TaskName |-> Name("A"), payload |-> <<FileMinioA1>>]),
      AsObject([prefix |-> "p"]),
      AsObject([TaskName |-> OldName(Name("A"), 0), payload |-> <<FileObjB>>]),
      AsObject([TaskName |-> OldName(Name("A"), 0), payload |-> <<>>]) }

Owners == {"u1", "u2"}
Hosts == {"", "http://minio:9000"}

(***************************************************************************)
(* serializers.py: what is_valid() accepts and validated_data holds.       *)
(***************************************************************************)
Restrict(d, keys) == [k \in (DOMAIN d \cap keys) |-> d[k]]

\* CharField() of a name-valued key: present and blank is rejected
NameFieldOK(d, k) == (k \in DOMAIN d) => d[k].base # ""
\* CharField() of an object-reference key
PathFieldOK(d, k) == (k \in DOMAIN d) => d[k] # <<>>
\* CharField() of any other key
TextFieldOK(d, k) == (k \in DOMAIN d) => d[k] # ""

FileItemPathFields == {"object_path", "minio_path"}
FileItemNameFields == {"folder"}
FileItemTextFields == {"filename", "field_name", "content_type", "province",
                       "area", "datetime", "file_name"}
FileItemFields == FileItemPathFields \cup FileItemNameFields \cup FileItemTextFields

\* FileItemFlexSerializer: every field optional
FileItemValid(f) ==
    /\ \A k \in FileItemPathFields : PathFieldOK(f, k)
    /\ \A k \in FileItemNameFields : NameFieldOK(f, k)
    /\ \A k \in FileItemTextFields : TextFieldOK(f, k)

FileItemValidated(f) == Restrict(f, FileItemFields)

\* DataItemSerializer: date, task and files are required
DataItemValid(d) ==
    /\ {"date", "task", "files"} \subseteq DOMAIN d
    /\ TextFieldOK(d, "date")
    /\ NameFieldOK(d, "task")
    /\ \A i \in 1..Len(d.files) : FileItemValid(d.files[i])

DataItemValidated(d) ==
    [date |-> d.date, task |-> d.task,
     files |-> [i \in 1..Len(d.files) |-> FileItemValidated(d.files[i])]]

ContainerFields == {"TaskId", "TaskName", "payload", "data", "prefix"}

\* PayloadContainerSerializer.validate
ContainerValidate(attrs) == "data" \in DOMAIN attrs \/ "payload" \in DOMAIN attrs

\* PayloadContainerSerializer(data=b).is_valid(), b a JSON object
ContainerValid(b) ==
    /\ TextFieldOK(b, "TaskId")
    /\ NameFieldOK(b, "TaskName")
    /\ TextFieldOK(b, "prefix")
    /\ ("payload" \in DOMAIN b) => \A i \in 1..Len(b.payload) : FileItemValid(b.payload[i])
    /\ ("data" \in DOMAIN b) => \A i \in 1..Len(b.data) : DataItemValid(b.data[i])
    /\ ContainerValidate(Restrict(b, ContainerFields))

\* serializer.validated_data
ContainerValidated(b) ==
    [k \in (DOMAIN b \cap ContainerFields) |->
        CASE k = "payload" -> [i \in 1..Len(b.payload) |-> FileItemValidated(b.payload[i])]
          [] k = "data" -> [i \in 1..Len(b.data) |-> DataItemValidated(b.data[i])]
          [] OTHER -> b[k]]

(***************************************************************************)
(* custom_views.py, post(): steps 2 and 3.                                 *)
(***************************************************************************)
\* a non-empty array is replaced by its first element
Unwrap(raw) ==
    IF raw.list /\ Len(raw.val) > 0 THEN AsObject(raw.val[1]) ELSE raw

\* serializer.is_valid(): an array is not a dictionary
IsValid(pd) == ~pd.list /\ ContainerValid(pd.val[1])

\* inner loop of lines 75-77 over the files of one data item
RECURSIVE AppendMinioPaths(_, _, _)
AppendMinioPaths(fs, i, acc) ==
    IF i > Len(fs) THEN [err |-> "none", paths |-> acc]
    ELSE IF "minio_path" \notin DOMAIN fs[i] THEN [err |-> "KeyError", paths |-> acc]
    ELSE AppendMinioPaths(fs, i + 1, Append(acc, fs[i].minio_path))

\* outer loop of lines 74-77
RECURSIVE FlattenData(_, _, _)
FlattenData(items, i, acc) ==
    IF i > Len(items) THEN [err |-> "none", paths |-> acc]
    ELSE LET r == AppendMinioPaths(items[i].files, 1, acc)
         IN  IF r.err # "none" THEN r ELSE FlattenData(items, i + 1, r.paths)

\* as ProjectNameB, but TaskName is preferred to the folder
ProjectNameB_TaskNameFirst(data) ==
    IF "TaskName" \in DOMAIN data THEN data.TaskName
    ELSE IF data.payload # <<>> /\ "folder" \in DOMAIN data.payload[1]
         THEN data.payload[1].folder
         ELSE UnnamedProject

\* lines 80-86: folder of the first payload item, else TaskName, else the default
ProjectNameB(data) ==
    IF data.payload # <<>> /\ "folder" \in DOMAIN data.payload[1]
    THEN data.payload[1].folder
    ELSE IF "TaskName" \in DOMAIN data
         THEN data.TaskName
         ELSE \* KeyError, caught: data.get('TaskName', 'Unnamed_Project')
              IF "TaskName" \in DOMAIN data THEN data.TaskName ELSE UnnamedProject

\* line 89: [file_item['object_path'] for file_item in data['payload']]
RECURSIVE ObjectPaths(_, _, _)
ObjectPaths(items, i, acc) ==
    IF i > Len(items) THEN [err |-> "none", paths |-> acc]
    ELSE IF "object_path" \notin DOMAIN items[i] THEN [err |-> "KeyError", paths |-> acc]
    ELSE ObjectPaths(items, i + 1, Append(acc, items[i].object_path))

NoName == <<>>

\* lines 68-89: [err, name, paths]; name is <<>> when none was assigned, else <<n>>
Derive(data) ==
    IF "data" \in DOMAIN data
    THEN IF data.data = <<>>
         THEN [err |-> "IndexError", name |-> NoName, paths |-> <<>>]
         ELSE LET r == FlattenData(data.data, 1, <<>>)
              IN  [err |-> r.err, name |-> <<data.data[1].task>>, paths |-> r.paths]
    ELSE LET r == ObjectPaths(data.payload, 1, <<>>)
         IN  [err |-> r.err, name |-> <<ProjectNameB(data)>>, paths |-> r.paths]

(***************************************************************************)
(* The Project table, as the handler uses it.                              *)
(***************************************************************************)
Matching(P, n, o) == {r \in P : r.name = n /\ r.owner = o}

\* Project.objects.get(name=project_name, owner=request.user)
GetResult(P, n, o) ==
    IF Matching(P, n, o) = {} THEN "DoesNotExist"
    ELSE IF Cardinality(Matching(P, n, o)) = 1 THEN "found"
    ELSE "MultipleObjectsReturned"

\* the row get() returned
GetRow(P, n, o) == CHOOSE r \in Matching(P, n, o) : TRUE

\* lines 102-103 on the in-memory existing_project, ts the timestamp of line 96
Renamed(row, ts) == [row EXCEPT !.name = OldName(row.name, ts)]

\* existing_project.save(): written under its primary key
SaveRow(P, row) == {r \in P : r.id # row.id} \cup {row}

\* Project.objects.create(name=project_name, owner=request.user)
CreateRow(P, id, n, o) == P \cup {[id |-> id, name |-> n, owner |-> o]}

\* new_project.delete()
DeleteRow(P, id) == {r \in P : r.id # id}

\* kwargs of task_download_and_process.delay
Job(id, host, paths) == [project_id |-> id, host |-> host, files |-> paths, options |-> <<>>]

(***************************************************************************)
(* post(): the handler as the sequence of its datastore and queue           *)
(* operations.  Each action is one operation (get, save, create, delete,    *)
(* publish) with the code that follows it up to the next one, which touches *)
(* only the request's own locals.  The handler holds no transaction and no  *)
(* lock, so the operations of the requests in flight interleave.            *)
(***************************************************************************)
Requests == {1, 2}

NoRow == [id |-> 0]
NoExc == [exc_type |-> "", exc_message |-> <<>>]
NoResult == [status |-> ""]
NoTask == [created |-> FALSE]

\* a request slot with no request in flight
IdleReq == [pc |-> "idle"]

\* lines 50-89: host check, unwrap, validation, derivation; status 0 when the
\* handler goes on to the datastore
Begin(host, raw) ==
    IF host = ""
    THEN [status |-> 400, reason |-> "host", name |-> NoName, paths |-> <<>>]
    ELSE IF ~IsValid(Unwrap(raw))
    THEN [status |-> 400, reason |-> "invalid", name |-> NoName, paths |-> <<>>]
    ELSE LET d == Derive(ContainerValidated(Unwrap(raw).val[1]))
         IN  IF d.err # "none"
             THEN [status |-> 500, reason |-> d.err, name |-> d.name, paths |-> <<>>]
             ELSE [status |-> 0, reason |-> "none", name |-> d.name, paths |-> d.paths]

\* the locals of a request entering line 92
InFlight(o, host, raw, b, P, J) ==
    [pc |-> "lookup", owner |-> o, host |-> host, raw |-> raw, name |-> b.name,
     paths |-> b.paths, found |-> NoRow, ts |-> 0, newId |-> 0,
     before |-> P, jobsBefore |-> J, overlap |-> FALSE]

\* the response leaving the handler, with the table and the queue at that moment
Response(q, status, reason, P, J) ==
    [status |-> status, reason |-> reason, owner |-> q.owner, host |-> q.host,
     raw |-> q.raw, before |-> q.before, jobsBefore |-> q.jobsBefore,
     name |-> q.name, paths |-> q.paths, newId |-> q.newId, oldId |-> q.found.id,
     ts |-> q.ts, after |-> P, jobsAfter |-> J, overlap |-> q.overlap]

\* request r goes on as q; its write is seen by the other requests in flight
Touch(r, q) ==
    [x \in Requests |->
        IF x = r THEN q
        ELSE IF req[x].pc = "idle" THEN req[x]
        ELSE [req[x] EXCEPT !.overlap = TRUE]]

InitHandler ==
    /\ projects = {}
    /\ nextId = 1
    /\ now = 0
    /\ jobs = {}
    /\ last = [status |-> 0, reason |-> "init", owner |-> "u1", host |-> "",
               raw |-> AsList(<<>>), before |-> {}, jobsBefore |-> {},
               name |-> NoName, paths |-> <<>>, newId |-> 0, oldId |-> 0, ts |-> 0,
               after |-> {}, jobsAfter |-> {}, overlap |-> FALSE]

InitConc ==
    /\ req = [r \in Requests |-> IdleReq]
    /\ started = 0

InitWorker ==
    /\ wpc = "idle"
    /\ files = <<>>
    /\ idx = 0
    /\ tempExists = FALSE
    /\ tempDir = {}
    /\ localPaths = <<>>
    /\ verified = <<>>
    /\ task = NoTask
    /\ destDir = {}
    /\ movedCount = 0
    /\ jobState = "PENDING"
    /\ jobMeta = NoExc
    /\ progress = 0
    /\ raised = NoExc
    /\ result = NoResult
    /\ triggered = FALSE
    /\ hist = [attempted |-> <<>>, counted |-> <<>>, absent |-> {}, failedAt |-> "",
               moveFailed |-> {}, lost |-> 0]

Init == InitHandler /\ InitConc /\ InitWorker

\* time passes
Tick ==
    /\ now < MaxTime
    /\ now' = now + 1
    /\ UNCHANGED <<projects, nextId, jobs, last, cvars, wvars>>

\* lines 45-89: a request arrives and takes the first free slot; it is
\* answered at once (400, 500) or goes on to the lookup
RStart(r, o, host, raw) ==
    /\ req[r].pc = "idle"
    /\ \A x \in Requests : x < r => req[x].pc # "idle"
    /\ started' = started + 1
    /\ LET b == Begin(host, raw)
           q == InFlight(o, host, raw, b, projects, jobs)
       IN  IF b.status # 0
           THEN /\ last' = Response(q, b.status, b.reason, projects, jobs)
                /\ req' = req
           ELSE /\ req' = [req EXCEPT ![r] = q]
                /\ last' = last
    /\ UNCHANGED <<projects, nextId, now, jobs, wvars>>

\* lines 92-93, 106-107: Project.objects.get; DoesNotExist is caught,
\* MultipleObjectsReturned leaves the handler
RLookup(r) ==
    /\ req[r].pc = "lookup"
    /\ LET q == req[r]
           g == GetResult(projects, q.name[1], q.owner)
       IN  CASE g = "found" ->
                  /\ req' = [req EXCEPT ![r] =
                                [q EXCEPT !.pc = "clock",
                                          !.found = GetRow(projects, q.name[1], q.owner)]]
                  /\ last' = last
             [] g = "DoesNotExist" ->
                  /\ req' = [req EXCEPT ![r] = [q EXCEPT !.pc = "create"]]
                  /\ last' = last
             [] OTHER ->
                  /\ req' = [req EXCEPT ![r] = IdleReq]
                  /\ last' = Response(q, 500, g, projects, jobs)
    /\ UNCHANGED <<projects, nextId, now, jobs, started, wvars>>

\* lines 95-103: timezone.now(), the timestamp and the new name of the
\* in-memory row
RClock(r) ==
    /\ req[r].pc = "clock"
    /\ req' = [req EXCEPT ![r] = [req[r] EXCEPT !.pc = "save", !.ts = Timestamp(now)]]
    /\ UNCHANGED <<projects, nextId, now, jobs, last, started, wvars>>

\* line 104: existing_project.save(), under the name computed at line 102
RSave(r) ==
    /\ req[r].pc = "save"
    /\ projects' = SaveRow(projects, Renamed(req[r].found, req[r].ts))
    /\ req' = Touch(r, [req[r] EXCEPT !.pc = "create"])
    /\ UNCHANGED <<nextId, now, jobs, last, started, wvars>>

\* lines 110-117: Project.objects.create, then the test of the list
RCreate(r) ==
    /\ req[r].pc = "create"
    /\ nextId <= MaxId
    /\ projects' = CreateRow(projects, nextId, req[r].name[1], req[r].owner)
    /\ nextId' = nextId + 1
    /\ req' = Touch(r, [req[r] EXCEPT !.newId = nextId,
                                      !.pc = IF req[r].paths = <<>> THEN "delete"
                                             ELSE "publish"])
    /\ UNCHANGED <<now, jobs, last, started, wvars>>

\* lines 118-120: new_project.delete(), ValidationError
RDelete(r) ==
    /\ req[r].pc = "delete"
    /\ projects' = DeleteRow(projects, req[r].newId)
    /\ last' = Response(req[r], 400, "nofiles", projects', jobs)
    /\ req' = Touch(r, IdleReq)
    /\ UNCHANGED <<nextId, now, jobs, started, wvars>>

\* lines 127-145: task_download_and_process.delay, 201
RPublish(r) ==
    /\ req[r].pc = "publish"
    /\ jobs' = jobs \cup {Job(req[r].newId, req[r].host, req[r].paths)}
    /\ last' = Response(req[r], 201, "created", projects, jobs')
    /\ req' = Touch(r, IdleReq)
    /\ UNCHANGED <<projects, nextId, now, started, wvars>>

(***************************************************************************)
(* Spec: requests of two owners on the bodies of StoreBodies.              *)
(***************************************************************************)
\* the requests of Spec, MaxStarted of them
RStartStore(r, o, host, raw) ==
    /\ started < MaxStarted
    /\ RStart(r, o, host, raw)

Next ==
    \/ Tick
    \/ \E r \in Requests, o \in Owners, host \in Hosts, raw \in StoreBodies :
           RStartStore(r, o, host, raw)
    \/ \E r \in Requests : RLookup(r)
    \/ \E r \in Requests : RClock(r)
    \/ \E r \in Requests : RSave(r)
    \/ \E r \in Requests : RCreate(r)
    \/ \E r \in Requests : RDelete(r)
    \/ \E r \in Requests : RPublish(r)

Spec == Init /\ [][Next]_vars

(***************************************************************************)
(* SpecPayload: the handler on every body of RawBodies.                    *)
(***************************************************************************)
\* requests of one owner, MaxPayloadStarted of them
RStartPayload(r, host, raw) ==
    /\ started < MaxPayloadStarted
    /\ RStart(r, "u1", host, raw)

\* the (host, body) pairs of SpecPayload: every body with a host, and two
\* bodies without one (line 50 answers before the body is looked at)
PayloadInputs ==
    {<<host, raw>> : host \in Hosts \ {""}, raw \in RawBodies}
      \cup {<<"", raw>> : raw \in {AsList(<<>>), AsObject([payload |-> <<FileObjA1>>])}}

NextPayload ==
    \/ \E r \in Requests, inp \in PayloadInputs : RStartPayload(r, inp[1], inp[2])
    \/ \E r \in Requests : RLookup(r)
    \/ \E r \in Requests : RClock(r)
    \/ \E r \in Requests : RSave(r)
    \/ \E r \in Requests : RCreate(r)
    \/ \E r \in Requests : RDelete(r)
    \/ \E r \in Requests : RPublish(r)

SpecPayload == Init /\ [][NextPayload]_vars

(***************************************************************************)
(* Claims about the request handler.  `last` is the latest response with   *)
(* the table and the queue as they were when the request arrived (before)  *)
(* and when it was answered (after); overlap tells whether another request *)
(* wrote in between.                                                       *)
(***************************************************************************)
Handled == last.status # 0

\* the last POST answered got as far as a (projectName, objectRefs) pair
DerivedPair == Handled /\ last.reason \in {"created", "nofiles", "MultipleObjectsReturned"}

\* the last POST answered ran with no write of another request in between
Alone == Handled /\ ~last.overlap

ClientError(st) == st >= 400 /\ st <= 499

\* C1: after a POST of owner O whose derived name N named a project of O
\* before the call, and during which no other request wrote, exactly one
\* project of O is named N, it is the one this call created, every project
\* named N before is now named N_old_<timestamp>, and no row of the table is
\* lost.
C1_RenameThenCreate ==
    (Alone /\ last.name # NoName
        /\ Matching(last.before, last.name[1], last.owner) # {})
    => /\ Cardinality(Matching(last.after, last.name[1], last.owner)) = 1
       /\ \A r \in Matching(last.after, last.name[1], last.owner) :
              last.newId # 0 /\ r.id = last.newId
       /\ \A r \in Matching(last.before, last.name[1], last.owner) :
              [r EXCEPT !.name = OldName(last.name[1], last.ts)] \in last.after
       /\ \A r \in last.before : \E q \in last.after : q.id = r.id

\* C2: a POST answered with a client error, during which no other request
\* wrote, leaves the Project table as it was (the row it created is deleted
\* again, no row is renamed) and enqueues no job.
C2_ErrorLeavesStore ==
    (Alone /\ ClientError(last.status))
    => /\ last.after = last.before
       /\ last.jobsAfter = last.jobsBefore

\* C3: a POST whose derived objectRefs list is empty, and during which no
\* other request wrote, leaves no row for the project it created, enqueues no
\* job, and is answered with a client error.
C3_EmptyRefs ==
    (Alone /\ DerivedPair /\ last.paths = <<>>)
    => /\ \A r \in last.after : last.newId = 0 \/ r.id # last.newId
       /\ last.jobsAfter = last.jobsBefore
       /\ ClientError(last.status)

\* C4: every POST is answered with a 400-class validation failure or with 201.
C4_OnlyClientErrorOrCreated ==
    Handled => (ClientError(last.status) \/ last.status = 201)

\* Reference derivation of (projectName, objectRefs) from validated data.
RECURSIVE Concat(_)
Concat(ss) == IF ss = <<>> THEN <<>> ELSE Head(ss) \o Concat(Tail(ss))

RefPaths(data) ==
    IF "data" \in DOMAIN data
    THEN Concat([i \in 1..Len(data.data) |->
                    [j \in 1..Len(data.data[i].files) |-> data.data[i].files[j].minio_path]])
    ELSE [i \in 1..Len(data.payload) |-> data.payload[i].object_path]

RefName(data) ==
    CASE "data" \in DOMAIN data -> data.data[1].task
      [] "data" \notin DOMAIN data /\ Len(data.payload) > 0
            /\ "folder" \in DOMAIN data.payload[1] -> data.payload[1].folder
      [] OTHER -> IF "TaskName" \in DOMAIN data THEN data.TaskName ELSE UnnamedProject

\* the payloads on which the reference derivation is defined
RefDefined(data) ==
    IF "data" \in DOMAIN data
    THEN /\ Len(data.data) > 0
         /\ \A i \in 1..Len(data.data) : \A j \in 1..Len(data.data[i].files) :
                "minio_path" \in DOMAIN data.data[i].files[j]
    ELSE \A i \in 1..Len(data.payload) : "object_path" \in DOMAIN data.payload[i]

LastData == ContainerValidated(Unwrap(last.raw).val[1])
LastAccepted == Handled /\ last.host # "" /\ IsValid(Unwrap(last.raw))

\* C5: for an accepted payload on which the reference derivation is defined,
\* the handler derives a (projectName, objectRefs) pair and it equals the
\* reference one; and without `data` the name is the reference name whatever
\* keys (folder, TaskName) are missing.
C5_Derivation ==
    LastAccepted
    => /\ ("data" \notin DOMAIN LastData) => last.name = <<RefName(LastData)>>
       /\ RefDefined(LastData) => /\ DerivedPair
                                  /\ last.name = <<RefName(LastData)>>
                                  /\ last.paths = RefPaths(LastData)

\* a Shape A payload of two data items flattened to three paths, one twice
C5_Witness ==
    /\ last.status = 201
    /\ "data" \in DOMAIN LastData
    /\ Len(LastData.data) = 2
    /\ last.paths = <<RefA1, RefA2, RefA1>>

(***************************************************************************)
(* SpecConc: requests of one owner deriving the same name, with non-empty  *)
(* objectRefs.                                                             *)
(***************************************************************************)
ConcOwner == "u1"
ConcHost == "http://minio:9000"
ConcName == Name("A")
ConcBody == AsObject([TaskName |-> ConcName, payload |-> <<FileObjB>>])

\* the requests of SpecConc, MaxConcStarted of them
CStart(r) ==
    /\ started < MaxConcStarted
    /\ RStart(r, ConcOwner, ConcHost, ConcBody)

NextConc ==
    \/ Tick
    \/ \E r \in Requests : CStart(r)
    \/ \E r \in Requests : RLookup(r)
    \/ \E r \in Requests : RClock(r)
    \/ \E r \in Requests : RSave(r)
    \/ \E r \in Requests : RCreate(r)
    \/ \E r \in Requests : RPublish(r)

SpecConc == Init /\ [][NextConc]_vars

AllReturned == \A r \in Requests : req[r].pc = "idle"

\* C9: once every handler of two or more such requests has returned, exactly
\* one project of the owner is named N and all other projects carry pairwise
\* distinct N_old_<timestamp> names.
C9_OneActiveProject ==
    (AllReturned /\ started >= 2)
    => /\ Cardinality(Matching(projects, ConcName, ConcOwner)) = 1
       /\ \A p \in projects : p.name # ConcName => p.name.olds # <<>>
       /\ \A p, q \in projects : p.id # q.id => p.name # q.name

(***************************************************************************)
(* remote_tasks.py: task_download_and_process.                             *)
(*                                                                         *)
(* The object store, the Task model, the filesystem moves and the queue    *)
(* are collaborators: each call to one of them either succeeds or raises,  *)
(* and the action takes that outcome as its input.                         *)
(***************************************************************************)
Refs == {RefA1, RefA2, RefB, RefBad}

\* the files argument: the handler enqueues non-empty lists only
JobFiles == UNION {[1..n -> Refs] : n \in 1..MaxFiles}

\* full_path.split('/', 1)
Parts(ref) == IF Len(ref) <= 1 THEN <<ref>> ELSE <<Head(ref), Tail(ref)>>

\* os.path.basename(object_path)
Basename(objectPath) == objectPath[Len(objectPath)]

\* as DownloadedExists, but the client's word is taken for it
DownloadedExists_Unchecked(dir, b) == TRUE

\* os.path.exists(local_path) after fget_object returned (line 82)
DownloadedExists(dir, b) == b \in dir

\* os.path.exists(img_path) in the re-verification and the move loop
PathExists(dir, b) == b \in dir

\* A message is the sequence of the pieces it is formatted from.
ExcImportMeta == [exc_type |-> "ImportError",
                  exc_message |-> <<"Minio package not installed">>]
ExcImport == [exc_type |-> "ImportError",
              exc_message |-> <<"Minio package required for remote file downloads">>]
ExcNoImages == [exc_type |-> "ValueError",
                exc_message |-> <<"No images were successfully downloaded">>]
\* f"Downloaded {len(local_image_paths)} files but none exist on disk!"
ExcNoneOnDisk(n) == [exc_type |-> "ValueError",
                     exc_message |-> <<"Downloaded ", n, " files but none exist on disk!">>]
\* an exception a collaborator raised in the named step
ExcIn(step) == [exc_type |-> "Exception", exc_message |-> <<step>>]

\* as FailWith, but temp_dir is left behind
FailWith_KeepsTemp(e, step, h) ==
    /\ UNCHANGED <<tempExists, tempDir>>
    /\ jobState' = "FAILURE"
    /\ jobMeta' = e
    /\ raised' = e
    /\ wpc' = "failed"
    /\ hist' = [h EXCEPT !.failedAt = step]

\* lines 184-194: the handler of the outer try, for the exception e raised
\* in step; h is the history so far
FailWith(e, step, h) ==
    /\ tempExists' = FALSE
    /\ tempDir' = {}
    /\ jobState' = "FAILURE"
    /\ jobMeta' = e
    /\ raised' = e
    /\ wpc' = "failed"
    /\ hist' = [h EXCEPT !.failedAt = step]

\* lines 29-44: the job starts; the import fails, or temp_dir is made
WStart(fs, importOk) ==
    /\ wpc = "idle"
    /\ files' = fs
    /\ IF importOk
       THEN /\ tempExists' = TRUE
            /\ wpc' = "connect"
            /\ UNCHANGED <<jobState, jobMeta, raised, hist>>
       ELSE /\ jobState' = "FAILURE"
            /\ jobMeta' = ExcImportMeta
            /\ raised' = ExcImport
            /\ wpc' = "failed"
            /\ hist' = [hist EXCEPT !.failedAt = "import"]
            /\ UNCHANGED tempExists
    /\ UNCHANGED <<idx, tempDir, localPaths, verified, task, destDir, movedCount, progress,
                   result, triggered, hvars, cvars>>

\* lines 47-63: the client is built and PROGRESS reported
WConnect(ok) ==
    /\ wpc = "connect"
    /\ IF ok
       THEN /\ jobState' = "PROGRESS"
            /\ idx' = 1
            /\ wpc' = "download"
            /\ UNCHANGED <<tempExists, tempDir, jobMeta, raised, hist>>
       ELSE /\ FailWith(ExcIn("connect"), "connect", hist)
            /\ UNCHANGED idx
    /\ UNCHANGED <<files, localPaths, verified, task, destDir, movedCount, progress, result,
                   triggered, hvars, cvars>>

\* The whole percentages k of 0..100 for which the double nearest to k/100,
\* multiplied by 100 in double arithmetic, falls below k.
FloatShort == {29, 57, 58}

\* line 92: int((idx + 1) / len(files) * 100) in double arithmetic, for the
\* i-th file of n.  The quotient i/n is rounded to a double before it is
\* multiplied, so an exact percentage of FloatShort comes out one lower;
\* every other value is the floor of the exact quotient.
Progress(i, n) ==
    LET k == (i * 100) \div n
    IN  IF (i * 100) % n = 0 /\ k \in FloatShort THEN k - 1 ELSE k

DownloadOutcomes == {"written", "nothing", "S3Error", "Exception"}

\* the basename under which the idx-th ref is stored in temp_dir (lines 74-76)
LocalName(fs, i) == Basename(Parts(fs[i])[2])

\* FileNotFoundError of os.path.getsize on the file b of temp_dir
ExcFileNotFound(b) == [exc_type |-> "FileNotFoundError",
                       exc_message |-> <<"[Errno 2] No such file or directory: ", b>>]

\* lines 110-116, 144: a file of temp_dir is no longer there when the worker
\* looks for it again
WLose(b) ==
    /\ wpc \in {"download", "dlExists", "dlSize", "verExists", "verSize", "createTask",
                "moveExists", "moveDo"}
    /\ b \in tempDir
    /\ hist.lost < MaxLost
    /\ tempDir' = tempDir \ {b}
    /\ hist' = [hist EXCEPT !.lost = @ + 1]
    /\ UNCHANGED <<wpc, files, idx, tempExists, localPaths, verified, task, destDir,
                   movedCount, jobState, jobMeta, progress, raised, result, triggered,
                   hvars, cvars>>

\* lines 66-79, 98-100: the split of the ref and the call of fget_object
WFetch(outcome) ==
    /\ wpc = "download"
    /\ idx <= Len(files)
    /\ LET parts == Parts(files[idx])
           called == [hist EXCEPT !.attempted = Append(@, idx)]
       IN  IF Len(parts) # 2
           THEN \* line 72: continue
                /\ idx' = idx + 1
                /\ UNCHANGED <<wpc, tempExists, tempDir, jobState, jobMeta, raised, hist>>
           ELSE IF outcome = "Exception"
           THEN \* not an S3Error: leaves the loop
                /\ FailWith(ExcIn("download"), "download", called)
                /\ UNCHANGED idx
           ELSE IF outcome = "S3Error"
           THEN \* lines 98-100
                /\ idx' = idx + 1
                /\ hist' = called
                /\ UNCHANGED <<wpc, tempExists, tempDir, jobState, jobMeta, raised>>
           ELSE \* fget_object returned
                /\ tempDir' = IF outcome = "written"
                              THEN tempDir \cup {LocalName(files, idx)} ELSE tempDir
                /\ wpc' = "dlExists"
                /\ hist' = called
                /\ UNCHANGED <<idx, tempExists, jobState, jobMeta, raised>>
    /\ UNCHANGED <<files, localPaths, verified, task, destDir, movedCount, progress,
                   result, triggered, hvars, cvars>>

\* line 82: os.path.exists(local_path); when it is not there, lines 86-96
WDlExists ==
    /\ wpc = "dlExists"
    /\ LET b == LocalName(files, idx)
           \* history: the call returned and the file is not in temp_dir
           h == IF b \notin tempDir THEN [hist EXCEPT !.absent = @ \cup {idx}] ELSE hist
       IN  /\ hist' = h
           /\ IF DownloadedExists(tempDir, b)
              THEN /\ wpc' = "dlSize"
                   /\ UNCHANGED <<idx, progress>>
              ELSE /\ progress' = Progress(idx, Len(files))
                   /\ idx' = idx + 1
                   /\ wpc' = "download"
    /\ UNCHANGED <<files, tempExists, tempDir, localPaths, verified, task, destDir,
                   movedCount, jobState, jobMeta, raised, result, triggered, hvars, cvars>>

\* lines 83-96: os.path.getsize(local_path), the append, the progress
WDlSize ==
    /\ wpc = "dlSize"
    /\ LET b == LocalName(files, idx)
       IN  IF PathExists(tempDir, b)
           THEN /\ localPaths' = Append(localPaths, b)
                /\ hist' = [hist EXCEPT !.counted = Append(@, idx)]
                /\ progress' = Progress(idx, Len(files))
                /\ idx' = idx + 1
                /\ wpc' = "download"
                /\ UNCHANGED <<tempExists, tempDir, jobState, jobMeta, raised>>
           ELSE \* FileNotFoundError is not an S3Error: leaves the loop
                /\ FailWith(ExcFileNotFound(b), "download", hist)
                /\ UNCHANGED <<localPaths, progress, idx>>
    /\ UNCHANGED <<files, verified, task, destDir, movedCount, result, triggered,
                   hvars, cvars>>

\* lines 102-109: after the loop
WCheck ==
    /\ wpc = "download"
    /\ idx > Len(files)
    /\ IF localPaths = <<>>
       THEN /\ FailWith(ExcNoImages, "nofiles", hist)
            /\ UNCHANGED <<idx, verified>>
       ELSE /\ verified' = <<>>
            /\ idx' = 1
            /\ wpc' = "verExists"
            /\ UNCHANGED <<tempExists, tempDir, jobState, jobMeta, raised, hist>>
    /\ UNCHANGED <<files, localPaths, task, destDir, movedCount, progress, result,
                   triggered, hvars, cvars>>

\* lines 110-111, 115-116: os.path.exists(img_path) for one path
WVerExists ==
    /\ wpc = "verExists"
    /\ idx <= Len(localPaths)
    /\ IF PathExists(tempDir, localPaths[idx])
       THEN /\ wpc' = "verSize"
            /\ UNCHANGED idx
       ELSE /\ idx' = idx + 1
            /\ UNCHANGED wpc
    /\ UNCHANGED <<files, tempExists, tempDir, localPaths, verified, task, destDir,
                   movedCount, jobState, jobMeta, progress, raised, result, triggered,
                   hist, hvars, cvars>>

\* lines 112-114: os.path.getsize(img_path), the append to verified_paths
WVerSize ==
    /\ wpc = "verSize"
    /\ LET b == localPaths[idx]
       IN  IF PathExists(tempDir, b)
           THEN /\ verified' = Append(verified, b)
                /\ idx' = idx + 1
                /\ wpc' = "verExists"
                /\ UNCHANGED <<tempExists, tempDir, jobState, jobMeta, raised, hist>>
           ELSE /\ FailWith(ExcFileNotFound(b), "verify", hist)
                /\ UNCHANGED <<verified, idx>>
    /\ UNCHANGED <<files, localPaths, task, destDir, movedCount, progress, result,
                   triggered, hvars, cvars>>

\* lines 118-123: after the re-verification
WVerDone ==
    /\ wpc = "verExists"
    /\ idx > Len(localPaths)
    /\ IF verified = <<>>
       THEN /\ FailWith(ExcNoneOnDisk(Len(localPaths)), "verify", hist)
            /\ UNCHANGED localPaths
       ELSE /\ localPaths' = verified
            /\ wpc' = "createTask"
            /\ UNCHANGED <<tempExists, tempDir, jobState, jobMeta, raised, hist>>
    /\ UNCHANGED <<files, idx, verified, task, destDir, movedCount, progress, result,
                   triggered, hvars, cvars>>

NewTask(n) == [created |-> TRUE, images |-> n, images_count |-> 0, saved |-> FALSE]

\* lines 126-141: Task.objects.create, then create_task_directories
WCreateTask(outcome) ==
    /\ wpc = "createTask"
    /\ IF outcome = "ok"
       THEN /\ task' = NewTask(Len(localPaths))
            /\ movedCount' = 0
            /\ idx' = 1
            /\ wpc' = "moveExists"
            /\ UNCHANGED <<tempExists, tempDir, jobState, jobMeta, raised, hist>>
       ELSE /\ FailWith(ExcIn("createTask"), "createTask", hist)
            /\ task' = IF outcome = "dirs" THEN NewTask(Len(localPaths)) ELSE task
            /\ UNCHANGED <<movedCount, idx>>
    /\ UNCHANGED <<files, localPaths, verified, destDir, progress, result, triggered,
                   hvars, cvars>>

MoveOutcomes == {"moved", "failed", "copiedThenFailed"}

\* lines 142-146: os.path.exists(img_path) for one path of the move loop
WMoveExists ==
    /\ wpc = "moveExists"
    /\ idx <= Len(localPaths)
    /\ IF PathExists(tempDir, localPaths[idx])
       THEN /\ wpc' = "moveDo"
            /\ UNCHANGED idx
       ELSE /\ idx' = idx + 1
            /\ UNCHANGED wpc
    /\ UNCHANGED <<files, tempExists, tempDir, localPaths, verified, task, destDir,
                   movedCount, jobState, jobMeta, progress, raised, result, triggered,
                   hist, hvars, cvars>>

\* lines 148-155: shutil.move and the counter; a move that raises is caught
WMoveDo(outcome) ==
    /\ wpc = "moveDo"
    /\ LET b == localPaths[idx]
       IN  CASE b \in tempDir /\ outcome = "moved" ->
                  /\ tempDir' = tempDir \ {b}
                  /\ destDir' = destDir \cup {b}
                  /\ movedCount' = movedCount + 1
                  /\ UNCHANGED hist
             [] b \in tempDir /\ outcome = "copiedThenFailed" ->
                  /\ destDir' = destDir \cup {b}
                  /\ hist' = [hist EXCEPT !.moveFailed = @ \cup {idx}]
                  /\ UNCHANGED <<tempDir, movedCount>>
             [] OTHER ->
                  \* the move raised, or the source is gone
                  /\ hist' = [hist EXCEPT !.moveFailed = @ \cup {idx}]
                  /\ UNCHANGED <<tempDir, destDir, movedCount>>
    /\ idx' = idx + 1
    /\ wpc' = "moveExists"
    /\ UNCHANGED <<files, tempExists, localPaths, verified, task, jobState, jobMeta,
                   progress, raised, result, triggered, hvars, cvars>>

\* as ActualFiles, but the loop's counter is trusted
ActualFiles_Moved == movedCount

\* line 160: the regular files in dest_dir
ActualFiles == Cardinality(destDir)

\* lines 160-166: recount, task.images_count, task.save()
WRecount(ok) ==
    /\ wpc = "moveExists"
    /\ idx > Len(localPaths)
    /\ IF ok
       THEN /\ task' = [task EXCEPT !.images_count = ActualFiles, !.saved = TRUE]
            /\ wpc' = "cleanup"
            /\ UNCHANGED <<tempExists, tempDir, jobState, jobMeta, raised, hist>>
       ELSE /\ FailWith(ExcIn("recount"), "recount", hist)
            /\ UNCHANGED task
    /\ UNCHANGED <<files, idx, localPaths, verified, destDir, movedCount, progress, result,
                   triggered, hvars, cvars>>

\* line 169: shutil.rmtree(temp_dir)
WCleanup ==
    /\ wpc = "cleanup"
    /\ tempExists' = FALSE
    /\ tempDir' = {}
    /\ wpc' = "trigger"
    /\ UNCHANGED <<files, idx, localPaths, verified, task, destDir, movedCount, jobState, jobMeta,
                   progress, raised, result, triggered, hist, hvars, cvars>>

\* lines 174-182: process_task.delay, then the result is returned
WTrigger(ok) ==
    /\ wpc = "trigger"
    /\ IF ok
       THEN /\ triggered' = TRUE
            /\ result' = [status |-> "success", images_downloaded |-> Len(localPaths)]
            /\ jobState' = "SUCCESS"
            /\ wpc' = "done"
            /\ UNCHANGED <<tempExists, tempDir, jobMeta, raised, hist>>
       ELSE /\ FailWith(ExcIn("trigger"), "trigger", hist)
            /\ UNCHANGED <<triggered, result>>
    /\ UNCHANGED <<files, idx, localPaths, verified, task, destDir, movedCount, progress, hvars,
                   cvars>>

NextWorker ==
    \/ \E fs \in JobFiles, ok \in BOOLEAN : WStart(fs, ok)
    \/ \E ok \in BOOLEAN : WConnect(ok)
    \/ \E outcome \in DownloadOutcomes : WFetch(outcome)
    \/ WDlExists
    \/ WDlSize
    \/ \E b \in {Basename(ref) : ref \in Refs} : WLose(b)
    \/ WCheck
    \/ WVerExists
    \/ WVerSize
    \/ WVerDone
    \/ \E outcome \in {"ok", "create", "dirs"} : WCreateTask(outcome)
    \/ WMoveExists
    \/ \E outcome \in MoveOutcomes : WMoveDo(outcome)
    \/ \E ok \in BOOLEAN : WRecount(ok)
    \/ WCleanup
    \/ \E ok \in BOOLEAN : WTrigger(ok)

SpecWorker == Init /\ [][NextWorker]_vars

(***************************************************************************)
(* Claims about the ingestion worker.                                      *)
(***************************************************************************)
Terminated == wpc \in {"failed", "done"}

\* the indexes of the refs that split into bucket and path, in input order
RECURSIVE WellFormedFrom(_, _)
WellFormedFrom(fs, i) ==
    IF i > Len(fs) THEN <<>>
    ELSE IF Len(fs[i]) >= 2 THEN <<i>> \o WellFormedFrom(fs, i + 1)
    ELSE WellFormedFrom(fs, i + 1)

PastDownloads == wpc \in {"verExists", "verSize", "createTask", "moveExists", "moveDo",
                          "cleanup", "trigger", "done"}
                   \/ (wpc = "failed" /\ hist.failedAt \notin {"import", "connect"})

\* C6: a per-file failure stays inside the loop: once the download loop is
\* left every ref that splits was attempted, in input order, and the job
\* fails in the download phase only when no file at all was downloaded (the
\* re-verification fails only when none of them is on disk any more).
C6_PerFileRecovered ==
    /\ PastDownloads => hist.attempted = WellFormedFrom(files, 1)
    /\ (wpc = "failed" /\ hist.failedAt \in {"download", "nofiles"})
          => localPaths = <<>>

Range(seq) == {seq[i] : i \in 1..Len(seq)}

OnlyFileAbsent == Len(files) = 1 /\ hist.absent = {1}

\* the failures of the re-verification
VerificationFailures == {ExcNoneOnDisk(n) : n \in 0..MaxFiles}

\* C7 as stated: a download that returned while the file is absent is never
\* counted, and when it is the only ref the job fails with the message of the
\* re-verification (VerificationFailed) and no Task is created.
C7_VerificationFailed ==
    /\ hist.absent \cap Range(hist.counted) = {}
    /\ (Terminated /\ OnlyFileAbsent)
          => (wpc = "failed" /\ jobMeta \in VerificationFailures /\ ~task.created)

\* C7 amended: such a file is never counted in images_downloaded, and when it
\* is the only ref the job fails with "No images were successfully downloaded"
\* (NoFilesAvailable, line 104), not with the re-verification failure, and no
\* Task is created.
C7_NoFilesAvailable ==
    /\ hist.absent \cap Range(hist.counted) = {}
    /\ Len(localPaths) <= Len(hist.counted)
    /\ (result # NoResult) => result.images_downloaded = Len(localPaths)
    /\ (Terminated /\ OnlyFileAbsent)
          => /\ wpc = "failed"
             /\ jobState = "FAILURE"
             /\ jobMeta = ExcNoImages
             /\ jobMeta \notin VerificationFailures
             /\ ~task.created
             /\ ~triggered

C7_Witness == Terminated /\ OnlyFileAbsent

StepsTwoToTen == {"connect", "download", "nofiles", "verify", "createTask",
                  "recount", "trigger"}

\* C8: when an exception leaves any step from connecting to the store to
\* triggering the pipeline, the worker ends with temp_dir gone, the job state
\* FAILURE carrying the exception's type and message, the exception raised to
\* the queue, and no result returned.
C8_FailureSemantics ==
    (wpc = "failed" /\ hist.failedAt \in StepsTwoToTen)
    => /\ ~tempExists
       /\ jobState = "FAILURE"
       /\ raised # NoExc
       /\ jobMeta = raised
       /\ result = NoResult
       /\ ~triggered

\* an exception left the download loop after a file had been downloaded
C8_Witness ==
    /\ wpc = "failed"
    /\ hist.failedAt = "download"
    /\ localPaths # <<>>

\* C10: when the pipeline is triggered, and from then on, the saved
\* images_count is the number of regular files in the Task's directory, and
\* the count was saved and temp_dir deleted before the trigger.
C10_ImagesCount ==
    (wpc = "trigger" \/ triggered)
    => /\ task.created
       /\ task.saved
       /\ task.images_count = Cardinality(destDir)
       /\ ~tempExists

\* triggered after a failed move: fewer files than verified downloads
C10_Witness ==
    /\ triggered
    /\ hist.moveFailed # {}
    /\ task.images_count < Len(localPaths)

====
